---- MODULE Spec2Model ----
(***************************************************************************)
(* classbridge-ai-chat: the Completion Proxy (the "chatbot" edge function) *)
(* and the Conversation Controller (the ChatBot component).                *)
(*                                                                         *)
(* Strings are sequences of one-character strings, so that trim() is a     *)
(* computation.  JavaScript's null and undefined are the two sentinel     *)
(* values NullV and Undefined, which are no strings over Chars.            *)
(***************************************************************************)
EXTENDS Integers, Sequences, FiniteSets, TLC

\* ------------------------------------------------------------------------
\* Bounds
\* ------------------------------------------------------------------------
\* longest text typed into the input field / sent as a message
MaxLen == 2
\* number of submissions accepted in one session
MaxSubs == 2
\* number of calls of updateDisplayName that are in flight at one time
MaxUpdates == 1

\* ------------------------------------------------------------------------
\* Values
\* ------------------------------------------------------------------------
Chars == {" ", "a"}

RECURSIVE StrUpTo(_)
StrUpTo(n) ==
  IF n = 0 THEN {<<>>}
  ELSE LET shorter == StrUpTo(n - 1)
       IN  shorter \cup {Append(s, c) : s \in shorter, c \in Chars}

Inputs == StrUpTo(MaxLen)

NullV == <<"null">>
Undefined == <<"undefined">>

\* the texts the completion API generates
GenTexts == {<<"x">>, <<"y">>}

\* String.prototype.trim
RECURSIVE TrimStart(_)
TrimStart(s) ==
  IF s # <<>> /\ Head(s) = " " THEN TrimStart(Tail(s)) ELSE s

RECURSIVE TrimEnd(_)
TrimEnd(s) ==
  IF s # <<>> /\ s[Len(s)] = " " THEN TrimEnd(SubSeq(s, 1, Len(s) - 1)) ELSE s

Trim(s) == TrimEnd(TrimStart(s))

\* JavaScript truthiness of a message value: `!message`
Falsy(v) == v \in {Undefined, NullV, <<>>}

\* ------------------------------------------------------------------------
\* State
\* ------------------------------------------------------------------------
VARIABLES
  apiKey,           \* openAIApiKey is set (read once at process start)
  exchange,         \* the last request the proxy handled, with its result,
                    \* until the controller has taken the response
  outLog,           \* the last two outbound calls: message and payload
  store,            \* the rows of `messages` of the user, in created_at order
  store0,           \* the rows that existed when the session started
  messages,         \* useState: the view
  inputValue,       \* useState
  loading,          \* useState
  loadingMessages,  \* useState
  rendered,         \* the state values the last render's handlers closed over
  load,             \* loadMessages: its position and the pending select result
  subs,             \* the executions of handleSendMessage
  toast,            \* the last toast shown
  closed,           \* the session is signed out: the component is gone
  storedName,       \* display_name of the user's row of `profiles`
  profile,          \* useState: the profile held locally (null until loaded)
  displayNameInput, \* useState
  nameDialogOpen,   \* useState
  profLoad,         \* loadProfile: its position and the pending select result
  upds              \* the executions of updateDisplayName

\* ------------------------------------------------------------------------
\* Completion Proxy (edge function)
\* ------------------------------------------------------------------------
SystemPrompt == <<"You are a helpful AI assistant for ClassBridge">>

\* headers are sets of << name, value >>
corsHeaders ==
  { <<"Access-Control-Allow-Origin", "*">>,
    <<"Access-Control-Allow-Headers",
      "authorization, x-client-info, apikey, content-type">> }

jsonHeaders == corsHeaders \cup { <<"Content-Type", "application/json">> }

\* A request: its method, whether req.json() parses the body, whether the
\* parsed value can be destructured (it is not null), and its message member
\* (Undefined when the body has none).
Requests ==
  [method : {"OPTIONS", "POST"}, parses : {FALSE}, isObject : {FALSE},
   message : {Undefined}]
  \cup
  [method : {"OPTIONS", "POST"}, parses : {TRUE}, isObject : {FALSE},
   message : {Undefined}]
  \cup
  [method : {"OPTIONS", "POST"}, parses : {TRUE}, isObject : {TRUE},
   message : Inputs \cup {Undefined, NullV}]

\* What the completion API does with an outbound call: the call throws, or
\* it answers with a status; a non-success answer has a text body, a success
\* answer has a body that parses or not, with a list of choices (the message
\* content of each) that may be empty.
UpstreamErrorTexts == {<<"e">>}

Upstreams ==
  [kind : {"throw"}, status : {0}, text : {<<>>}, parses : {FALSE},
   choices : {<<>>}]
  \cup
  [kind : {"resp"}, status : {401, 500}, text : UpstreamErrorTexts,
   parses : {FALSE}, choices : {<<>>}]
  \cup
  [kind : {"resp"}, status : {200}, text : {<<>>}, parses : {FALSE},
   choices : {<<>>}]
  \cup
  [kind : {"resp"}, status : {200}, text : {<<>>}, parses : {TRUE},
   choices : {<<>>} \cup {<<c>> : c \in GenTexts \cup {NullV, Undefined}}]

NoUpstream ==
  [kind |-> "none", status |-> 0, text |-> <<>>, parses |-> FALSE,
   choices |-> <<>>]

\* response.ok
Ok(up) == up.status >= 200 /\ up.status <= 299

NoPayload == <<>>

\* (the stored turns are sent along)
openAIPayloadWithHistory(message) ==
  << [role |-> "system", content |-> SystemPrompt] >>
  \o [i \in DOMAIN store |->
        [role |-> store[i].role, content |-> store[i].content]]
  \o << [role |-> "user", content |-> message] >>

\* The body of the outbound call.
openAIPayload(message) ==
  << [role |-> "system", content |-> SystemPrompt],
     [role |-> "user", content |-> message] >>

\* JSON.stringify of an object with one member: a member whose value is
\* undefined is left out.
Stringify1(key, v) ==
  IF v = Undefined THEN [k \in {} |-> v] ELSE [k \in {key} |-> v]

Response(st, hd, bd) ==
  [outcome |-> "response", status |-> st, headers |-> hd, body |-> bd]

\* (the body of the answer is left out)
DetailsWithoutBody(up) == <<"OpenAI API returned ", up.status, ": ", <<>>>>

\* the template `OpenAI API returned ${response.status}: ${errorData}`
Details(up) == <<"OpenAI API returned ", up.status, ": ", up.text>>

Thrown == [outcome |-> "thrown"]

Pass == [outcome |-> "pass"]

\* (the credential is checked before the message)
ValidateKeyFirst(req, key) ==
  IF ~req.parses \/ ~req.isObject THEN Thrown
  ELSE IF ~key
    THEN Response(500, jsonHeaders,
                  [error |-> "OpenAI API key not configured"])
  ELSE IF Falsy(req.message)
    THEN Response(400, jsonHeaders, [error |-> "Message is required"])
  ELSE Pass

\* (the credential is not checked)
ValidateNoKeyCheck(req, key) ==
  IF ~req.parses \/ ~req.isObject THEN Thrown
  ELSE IF Falsy(req.message)
    THEN Response(400, jsonHeaders, [error |-> "Message is required"])
  ELSE Pass

\* The try block up to the outbound call: `const { message } = await
\* req.json()` throws, a check returns a response, or the call is made.
Validate(req, key) ==
  IF ~req.parses \/ ~req.isObject THEN Thrown
  ELSE IF Falsy(req.message)
    THEN Response(400, jsonHeaders, [error |-> "Message is required"])
  ELSE IF ~key
    THEN Response(500, jsonHeaders,
                  [error |-> "OpenAI API key not configured"])
  ELSE Pass

\* (the second choice is read instead of the first)
RelaySecondChoice(up) ==
  IF up.kind = "throw" THEN Thrown
  ELSE IF ~Ok(up)
    THEN Response(500, jsonHeaders,
                  [error |-> "Failed to get response from AI",
                   details |-> Details(up)])
  ELSE IF ~up.parses \/ Len(up.choices) < 2 THEN Thrown
  ELSE Response(200, jsonHeaders, Stringify1("response", up.choices[2]))

\* The try block from the outbound call on: fetch throws, or the answer is
\* turned into a response; response.json() and data.choices[0].message throw
\* for a body that does not parse or has no first choice.
Relay(up) ==
  IF up.kind = "throw" THEN Thrown
  ELSE IF ~Ok(up)
    THEN Response(500, jsonHeaders,
                  [error |-> "Failed to get response from AI",
                   details |-> Details(up)])
  ELSE IF ~up.parses \/ up.choices = <<>> THEN Thrown
  ELSE Response(200, jsonHeaders, Stringify1("response", up.choices[1]))

\* The try block of the handler.  The result is the response it returns, or
\* Thrown when a statement of the block throws; `fetched` tells whether the
\* outbound call was made and `payload` is its body.
TryBlock(req, key, up) ==
  LET v == Validate(req, key)
  IN  IF v # Pass
        THEN [res |-> v, fetched |-> FALSE, payload |-> NoPayload]
        ELSE [res |-> Relay(up), fetched |-> TRUE,
              payload |-> openAIPayload(req.message)]

\* (the exception is not caught)
CatchBlockRethrow(r) == r

\* The catch block of the handler.
CatchBlock(r) ==
  IF r.res = Thrown
    THEN [r EXCEPT !.res = Response(500, jsonHeaders,
                                    [error |-> "Internal server error"])]
    ELSE r

\* (the OPTIONS test is left out: every request goes through the try block)
HandlerWithoutPreflight(req, key, up) == CatchBlock(TryBlock(req, key, up))

\* serve(async (req) => ...)
Handler(req, key, up) ==
  IF req.method = "OPTIONS"
    THEN [res |-> Response(200, corsHeaders, [k \in {} |-> <<>>]),
          fetched |-> FALSE, payload |-> NoPayload]
    ELSE CatchBlock(TryBlock(req, key, up))

\* ------------------------------------------------------------------------
\* Message store (table `messages`) and the controller's state
\* ------------------------------------------------------------------------
UserId == "u1"

NoRow ==
  [id |-> 0, user_id |-> "", role |-> "", content |-> <<>>, created_at |-> 0]

\* The column value the store keeps for an inserted content: a member left
\* out of the JSON row (undefined) is stored as SQL NULL.
StoredContent(c) == IF c = Undefined THEN NullV ELSE c

\* The history that exists when the session starts.
InitialStores ==
  { <<>>,
    << [id |-> 1, user_id |-> UserId, role |-> "user",
        content |-> <<"a">>, created_at |-> 1],
       [id |-> 2, user_id |-> UserId, role |-> "assistant",
        content |-> <<"x">>, created_at |-> 2] >> }

Subs == 1 .. MaxSubs

NoReply == [error |-> FALSE, row |-> NoRow, response |-> Undefined]

IdleSub ==
  [pc |-> "idle", userMessage |-> <<>>, reply |-> NoReply,
   savedUserMessage |-> NoRow, assistantResponse |-> Undefined,
   savedAssistantMessage |-> NoRow, failedAt |-> "none"]

NoExchange ==
  [caller |-> 0,
   req |-> [method |-> "NONE", parses |-> FALSE, isObject |-> FALSE,
            message |-> Undefined],
   up |-> NoUpstream,
   out |-> [res |-> [outcome |-> "none"], fetched |-> FALSE,
            payload |-> NoPayload]]

vars ==
  << apiKey, exchange, outLog, store, store0, messages, inputValue, loading,
     loadingMessages, rendered, load, subs, toast, closed, storedName,
     profile, displayNameInput, nameDialogOpen, profLoad, upds >>

profVars ==
  << storedName, profile, displayNameInput, nameDialogOpen, profLoad, upds >>

\* what the chat flow leaves alone
sideVars == << closed, profVars >>

proxyVars == << apiKey, exchange, outLog >>
ctlVars ==
  << store, store0, messages, inputValue, loading, loadingMessages, rendered,
     load, subs, toast >>

ctlVarsButSubs ==
  << store, store0, messages, inputValue, loading, loadingMessages, rendered,
     load, toast >>

Snapshot ==
  [inputValue |-> inputValue, loading |-> loading,
   loadingMessages |-> loadingMessages,
   displayNameInput |-> displayNameInput, nameDialogOpen |-> nameDialogOpen]

\* the profile state before loadProfile has set it: useState(null)
NoProfile == [loaded |-> FALSE, display_name |-> NullV]

\* the display names a row of `profiles` has when the session starts
InitialNames == {NullV, <<"a">>}

Upds == 1 .. MaxUpdates

IdleUpd == [pc |-> "idle", name |-> <<>>, error |-> FALSE]

\* The component just mounted, for one of the given settings of the edge
\* function's key, over one of the given histories and display names.
Mounted(keys, stores, names) ==
  /\ apiKey \in keys
  /\ exchange = NoExchange
  /\ outLog = <<>>
  /\ store \in stores
  /\ store0 = store
  /\ messages = <<>>
  /\ inputValue = <<>>
  /\ loading = FALSE
  /\ loadingMessages = TRUE
  /\ rendered = [inputValue |-> <<>>, loading |-> FALSE,
                 loadingMessages |-> TRUE, displayNameInput |-> <<>>,
                 nameDialogOpen |-> FALSE]
  /\ load = [pc |-> "select", error |-> FALSE, rows |-> <<>>]
  /\ subs = [s \in Subs |-> IdleSub]
  /\ toast = "none"
  /\ closed = FALSE
  /\ storedName \in names
  /\ profile = NoProfile
  /\ displayNameInput = <<>>
  /\ nameDialogOpen = FALSE
  /\ profLoad = [pc |-> "select", error |-> FALSE, name |-> NullV]
  /\ upds = [u \in Upds |-> IdleUpd]

\* The chat flow never reads the display name: one stored name stands for
\* all of them.
Init == Mounted(BOOLEAN, InitialStores, {NullV})

\* React commits the state updates of an event handler when the handler
\* returns, before the next event is dispatched.
Commit ==
  rendered' = [inputValue |-> inputValue', loading |-> loading',
               loadingMessages |-> loadingMessages',
               displayNameInput |-> displayNameInput',
               nameDialogOpen |-> nameDialogOpen']

\* setMessages: a state update of a component that is gone does nothing.
SetMessages(v) == messages' = IF closed THEN messages ELSE v

\* React commits the pending state updates (those made after an await): the
\* handlers of the new render close over the current state.
Render ==
  /\ ~closed
  /\ rendered # Snapshot
  /\ rendered' = Snapshot
  /\ UNCHANGED << proxyVars, store, store0, messages, inputValue, loading,
                  loadingMessages, load, subs, toast >>
  /\ UNCHANGED sideVars

\* loadMessages: the select reaches the store and is answered.
LoadSelect(ok) ==
  /\ load.pc = "select"
  /\ load' = [pc |-> "returned", error |-> ~ok,
              rows |-> IF ok THEN store ELSE <<>>]
  /\ UNCHANGED << proxyVars, store, store0, messages, inputValue, loading,
                  loadingMessages, rendered, subs, toast >>
  /\ UNCHANGED sideVars

\* (setLoadingMessages(false) at the end of the try block, not in finally)
LoadReturnWithoutFinally ==
  /\ load.pc = "returned"
  /\ load' = [pc |-> "done", error |-> FALSE, rows |-> <<>>]
  /\ IF load.error
       THEN /\ toast' = "Failed to load chat history"
            /\ UNCHANGED << messages, loadingMessages >>
       ELSE /\ SetMessages(load.rows)
            /\ loadingMessages' = FALSE
            /\ UNCHANGED toast
  /\ UNCHANGED << proxyVars, store, store0, inputValue, loading, rendered,
                  subs >>
  /\ UNCHANGED sideVars

\* loadMessages: the code after the await.
LoadReturn ==
  /\ load.pc = "returned"
  /\ load' = [pc |-> "done", error |-> FALSE, rows |-> <<>>]
  /\ IF load.error
       THEN /\ toast' = "Failed to load chat history"
            /\ UNCHANGED messages
       ELSE /\ SetMessages(load.rows)
            /\ UNCHANGED toast
  /\ loadingMessages' = FALSE
  /\ UNCHANGED << proxyVars, store, store0, inputValue, loading, rendered,
                  subs >>
  /\ UNCHANGED sideVars

\* useAuth hands the component a new user object while the session is open:
\* the mount effect runs again and calls loadProfile and loadMessages; no
\* state is reset and loadingMessages stays false. (One load at a time.)
UserChanged ==
  /\ ~closed
  /\ load.pc = "done"
  /\ load' = [pc |-> "select", error |-> FALSE, rows |-> <<>>]
  /\ profLoad' = [pc |-> "select", error |-> FALSE, name |-> NullV]
  /\ UNCHANGED << proxyVars, store, store0, messages, inputValue, loading,
                  loadingMessages, rendered, subs, toast, closed,
                  storedName, profile, displayNameInput, nameDialogOpen,
                  upds >>

\* What one keystroke makes of the text of a field: a character is added at
\* the end or the last one is deleted (every text is typed in this way).
Keystroke(old, new) ==
  \/ \E c \in Chars : new = Append(old, c)
  \/ old # <<>> /\ new = SubSeq(old, 1, Len(old) - 1)

\* onChange of the input field
SetInputValue(v) ==
  /\ ~closed
  /\ ~rendered.loadingMessages
  /\ ~rendered.loading
  /\ Keystroke(rendered.inputValue, v)
  /\ inputValue' = v
  /\ UNCHANGED << proxyVars, store, store0, messages, loading,
                  loadingMessages, load, subs, toast >>
  /\ UNCHANGED sideVars
  /\ Commit

\* ------------------------------------------------------------------------
\* handleSendMessage
\* ------------------------------------------------------------------------
\* The execution that a call of handleSendMessage starts: the first unused.
FreeSubs == {s \in Subs : subs[s].pc = "idle"}
NextSub == CHOOSE s \in FreeSubs : \A t \in FreeSubs : s <= t

\* (the input is tested without trimming it)
RejectsUntrimmed(r) == r.inputValue = <<>> \/ r.loading

\* `if (!inputValue.trim() || loading) return;` on the values of the render
\* whose handler is called.
Rejects(r) == Trim(r.inputValue) = <<>> \/ r.loading

\* (the text of the input field is taken as it is)
handleSendMessageUntrimmed ==
  /\ ~closed
  /\ ~rendered.loadingMessages
  /\ IF Rejects(rendered)
       THEN UNCHANGED << inputValue, loading, subs >>
       ELSE /\ FreeSubs # {}
            /\ inputValue' = <<>>
            /\ loading' = TRUE
            /\ subs' = [subs EXCEPT ![NextSub] =
                 [IdleSub EXCEPT !.pc = "saveUser",
                                 !.userMessage = rendered.inputValue]]
  /\ UNCHANGED << proxyVars, store, store0, messages, loadingMessages,
                  load, toast >>
  /\ UNCHANGED sideVars

\* handleSendMessage up to the first await (the insert of saveMessage is
\* issued).
handleSendMessage ==
  /\ ~closed
  /\ ~rendered.loadingMessages
  /\ IF Rejects(rendered)
       THEN UNCHANGED << inputValue, loading, subs >>
       ELSE /\ FreeSubs # {}
            /\ inputValue' = <<>>
            /\ loading' = TRUE
            /\ subs' = [subs EXCEPT ![NextSub] =
                 [IdleSub EXCEPT !.pc = "saveUser",
                                 !.userMessage = Trim(rendered.inputValue)]]
  /\ UNCHANGED << proxyVars, store, store0, messages, loadingMessages,
                  load, toast >>
  /\ UNCHANGED sideVars

\* A Send click or an Enter key press.
Submit ==
  /\ handleSendMessage
  /\ Commit

\* A Send click or an Enter key press that is handled before the state
\* updates of an earlier event are committed.
SubmitBeforeCommit ==
  /\ handleSendMessage
  /\ UNCHANGED rendered

\* The row the store creates for an insert.
NewRow(role, content) ==
  [id |-> Len(store) + 1, user_id |-> UserId, role |-> role,
   content |-> StoredContent(content), created_at |-> Len(store) + 1]

\* (an upsert on the role: the last row of that role is written over)
InsertUpsert(s, role, content, ok, nextPc) ==
  IF ok
    THEN /\ store' =
              IF \E i \in DOMAIN store : store[i].role = role
                THEN [store EXCEPT
                        ![CHOOSE i \in DOMAIN store :
                            /\ store[i].role = role
                            /\ \A j \in DOMAIN store :
                                 store[j].role = role => j <= i] =
                          NewRow(role, content)]
                ELSE Append(store, NewRow(role, content))
         /\ subs' = [subs EXCEPT ![s].pc = nextPc,
                                 ![s].reply = [NoReply EXCEPT
                                     !.row = NewRow(role, content)]]
    ELSE /\ UNCHANGED store
         /\ subs' = [subs EXCEPT ![s].pc = nextPc,
                                 ![s].reply = [NoReply EXCEPT !.error = TRUE]]

\* saveMessage: the insert reaches the store, which creates the row and
\* answers with it, or fails.
Insert(s, role, content, ok, nextPc) ==
  IF ok
    THEN /\ store' = Append(store, NewRow(role, content))
         /\ subs' = [subs EXCEPT ![s].pc = nextPc,
                                 ![s].reply = [NoReply EXCEPT
                                     !.row = NewRow(role, content)]]
    ELSE /\ UNCHANGED store
         /\ subs' = [subs EXCEPT ![s].pc = nextPc,
                                 ![s].reply = [NoReply EXCEPT !.error = TRUE]]

\* An execution that has returned: its local variables are gone; what it
\* saved and the step that failed, if one did, are kept.
Finished(sub, step, saved) ==
  [IdleSub EXCEPT !.pc = "done", !.failedAt = step,
                  !.savedUserMessage = sub.savedUserMessage,
                  !.savedAssistantMessage = saved]

\* (catch without the finally block)
CatchWithoutFinally(s, step) ==
  /\ toast' = "Failed to send message"
  /\ UNCHANGED loading
  /\ subs' = [subs EXCEPT ![s] = Finished(subs[s], step, NoRow)]

\* catch and finally of handleSendMessage
CatchFinally(s, step) ==
  /\ toast' = "Failed to send message"
  /\ loading' = FALSE
  /\ subs' = [subs EXCEPT ![s] = Finished(subs[s], step, NoRow)]

\* saveMessage('user', userMessage): the insert reaches the store.
InsertUser(s, ok) ==
  /\ subs[s].pc = "saveUser"
  /\ Insert(s, "user", subs[s].userMessage, ok, "userReturned")
  /\ UNCHANGED << proxyVars, store0, messages, inputValue, loading,
                  loadingMessages, rendered, load, toast >>
  /\ UNCHANGED sideVars

\* (the error of the insert is not looked at)
UserReturnedUnchecked(s) ==
  /\ subs[s].pc = "userReturned"
  /\ SetMessages(Append(messages, subs[s].reply.row))
  /\ subs' = [subs EXCEPT ![s].pc = "invoke",
                          ![s].savedUserMessage = subs[s].reply.row]
  /\ UNCHANGED << loading, toast >>
  /\ UNCHANGED << proxyVars, store, store0, inputValue, loadingMessages,
                  rendered, load >>
  /\ UNCHANGED sideVars

\* (a failed insert of the user turn is issued again)
UserReturnedRetrying(s) ==
  /\ subs[s].pc = "userReturned"
  /\ IF subs[s].reply.error
       THEN /\ subs' = [subs EXCEPT ![s].pc = "saveUser",
                                    ![s].reply = NoReply]
            /\ UNCHANGED << messages, loading, toast >>
       ELSE /\ SetMessages(Append(messages, subs[s].reply.row))
            /\ subs' = [subs EXCEPT ![s].pc = "invoke",
                                    ![s].savedUserMessage = subs[s].reply.row]
            /\ UNCHANGED << loading, toast >>
  /\ UNCHANGED << proxyVars, store, store0, inputValue, loadingMessages,
                  rendered, load >>
  /\ UNCHANGED sideVars

\* After `await saveMessage('user', ...)`: the user turn is added to the
\* view and the edge function is invoked.
UserReturned(s) ==
  /\ subs[s].pc = "userReturned"
  /\ IF subs[s].reply.error
       THEN /\ CatchFinally(s, "userInsert")
            /\ UNCHANGED messages
       ELSE /\ SetMessages(Append(messages, subs[s].reply.row))
            /\ subs' = [subs EXCEPT ![s].pc = "invoke",
                                    ![s].savedUserMessage = subs[s].reply.row]
            /\ UNCHANGED << loading, toast >>
  /\ UNCHANGED << proxyVars, store, store0, inputValue, loadingMessages,
                  rendered, load >>
  /\ UNCHANGED sideVars

Last2(q) == IF Len(q) > 2 THEN Tail(q) ELSE q

\* The proxy handles a request: the exchange is recorded, and so is the
\* outbound call when one is made.
Handle(caller, req, up) ==
  LET out == Handler(req, apiKey, up)
  IN  /\ exchange' = [caller |-> caller, req |-> req,
                      up |-> IF out.fetched THEN up ELSE NoUpstream,
                      out |-> out]
      /\ outLog' = IF out.fetched
                     THEN Last2(Append(outLog, [message |-> req.message,
                                                payload |-> out.payload]))
                     ELSE outLog
      /\ UNCHANGED apiKey

\* The request supabase.functions.invoke sends for `body: { message }`.
InvokeRequest(message) ==
  [method |-> "POST", parses |-> TRUE, isObject |-> TRUE, message |-> message]

\* What supabase.functions.invoke resolves to for a response of the edge
\* function: an error for a non-2xx status, else the parsed body as data,
\* of which the caller reads data.response.
InvokeReply(res) ==
  IF res.status < 200 \/ res.status > 299
    THEN [NoReply EXCEPT !.error = TRUE]
    ELSE [NoReply EXCEPT !.response =
            IF "response" \in DOMAIN res.body THEN res.body["response"]
                                              ELSE Undefined]

\* supabase.functions.invoke('chatbot', ...): the request reaches the edge
\* function, which handles it with whatever the completion API does.
InvokeProxy(s, up) ==
  /\ subs[s].pc = "invoke"
  /\ Handle(s, InvokeRequest(subs[s].userMessage), up)
  /\ subs' = [subs EXCEPT ![s].pc = "invokeReturned",
                          ![s].reply = InvokeReply(exchange'.out.res)]
  /\ UNCHANGED ctlVarsButSubs
  /\ UNCHANGED sideVars

\* supabase.functions.invoke fails before the edge function is reached.
InvokeUnreached(s) ==
  /\ subs[s].pc = "invoke"
  /\ subs' = [subs EXCEPT ![s].pc = "invokeReturned",
                          ![s].reply = [NoReply EXCEPT !.error = TRUE]]
  /\ UNCHANGED << proxyVars, ctlVarsButSubs >>
  /\ UNCHANGED sideVars

\* (the error of the invocation is not looked at)
InvokeReturnedUnchecked(s) ==
  /\ subs[s].pc = "invokeReturned"
  /\ exchange' = IF exchange.caller = s THEN NoExchange ELSE exchange
  /\ subs' = [subs EXCEPT ![s].pc = "saveAssistant",
                          ![s].assistantResponse = subs[s].reply.response]
  /\ UNCHANGED << loading, toast >>
  /\ UNCHANGED << apiKey, outLog, store, store0, messages, inputValue,
                  loadingMessages, rendered, load >>
  /\ UNCHANGED sideVars

\* (`data.response || <a fixed text>`)
InvokeReturnedDefaulting(s) ==
  /\ subs[s].pc = "invokeReturned"
  /\ exchange' = IF exchange.caller = s THEN NoExchange ELSE exchange
  /\ IF subs[s].reply.error
       THEN CatchFinally(s, "invoke")
       ELSE /\ subs' = [subs EXCEPT ![s].pc = "saveAssistant",
                            ![s].assistantResponse =
                              IF Falsy(subs[s].reply.response)
                                THEN <<"x">>
                                ELSE subs[s].reply.response]
            /\ UNCHANGED << loading, toast >>
  /\ UNCHANGED << apiKey, outLog, store, store0, messages, inputValue,
                  loadingMessages, rendered, load >>
  /\ UNCHANGED sideVars

\* After `await supabase.functions.invoke(...)`: `if (error) throw error`,
\* else the insert of the assistant turn is issued.
InvokeReturned(s) ==
  /\ subs[s].pc = "invokeReturned"
  /\ exchange' = IF exchange.caller = s THEN NoExchange ELSE exchange
  /\ IF subs[s].reply.error
       THEN CatchFinally(s, "invoke")
       ELSE /\ subs' = [subs EXCEPT ![s].pc = "saveAssistant",
                            ![s].assistantResponse = subs[s].reply.response]
            /\ UNCHANGED << loading, toast >>
  /\ UNCHANGED << apiKey, outLog, store, store0, messages, inputValue,
                  loadingMessages, rendered, load >>
  /\ UNCHANGED sideVars

\* (the assistant turn is saved with the role of the user turn)
InsertAssistantAsUser(s, ok) ==
  /\ subs[s].pc = "saveAssistant"
  /\ Insert(s, "user", subs[s].assistantResponse, ok, "assistantReturned")
  /\ UNCHANGED << proxyVars, store0, messages, inputValue, loading,
                  loadingMessages, rendered, load, toast >>
  /\ UNCHANGED sideVars

\* saveMessage('assistant', assistantResponse): the insert reaches the store.
InsertAssistant(s, ok) ==
  /\ subs[s].pc = "saveAssistant"
  /\ Insert(s, "assistant", subs[s].assistantResponse, ok,
            "assistantReturned")
  /\ UNCHANGED << proxyVars, store0, messages, inputValue, loading,
                  loadingMessages, rendered, load, toast >>
  /\ UNCHANGED sideVars

\* After `await saveMessage('assistant', ...)`: the assistant turn is added
\* to the view; finally setLoading(false).
AssistantReturned(s) ==
  /\ subs[s].pc = "assistantReturned"
  /\ IF subs[s].reply.error
       THEN /\ CatchFinally(s, "assistantInsert")
            /\ UNCHANGED messages
       ELSE /\ SetMessages(Append(messages, subs[s].reply.row))
            /\ loading' = FALSE
            /\ subs' = [subs EXCEPT ![s] =
                          Finished(subs[s], "none", subs[s].reply.row)]
            /\ UNCHANGED toast
  /\ UNCHANGED << proxyVars, store, store0, inputValue, loadingMessages,
                  rendered, load >>
  /\ UNCHANGED sideVars

\* ------------------------------------------------------------------------
\* loadProfile, the display-name dialog and updateDisplayName
\* ------------------------------------------------------------------------
\* what the profile flow leaves alone
chatVars ==
  << proxyVars, store, store0, messages, inputValue, loading,
     loadingMessages, load, subs, closed >>

\* loadProfile: the select reaches the store and returns the row, or fails.
ProfileSelect(ok) ==
  /\ profLoad.pc = "select"
  /\ profLoad' = [pc |-> "returned", error |-> ~ok,
                  name |-> IF ok THEN storedName ELSE NullV]
  /\ UNCHANGED << storedName, profile, displayNameInput, nameDialogOpen,
                  upds, toast, rendered >>
  /\ UNCHANGED chatVars

\* `data.display_name || ''`
OrEmpty(name) == IF Falsy(name) THEN <<>> ELSE name

\* loadProfile: the code after the await; an error is only logged.
ProfileReturn ==
  /\ profLoad.pc = "returned"
  /\ profLoad' = [pc |-> "done", error |-> FALSE, name |-> NullV]
  /\ IF profLoad.error
       THEN UNCHANGED << profile, displayNameInput >>
       ELSE /\ profile' = [loaded |-> TRUE, display_name |-> profLoad.name]
            /\ displayNameInput' = OrEmpty(profLoad.name)
  /\ UNCHANGED << storedName, nameDialogOpen, upds, toast, rendered >>
  /\ UNCHANGED chatVars

\* DialogTrigger / onOpenChange(true)
OpenDialog ==
  /\ ~closed
  /\ ~rendered.loadingMessages
  /\ ~rendered.nameDialogOpen
  /\ nameDialogOpen' = TRUE
  /\ UNCHANGED << storedName, profile, displayNameInput, profLoad, upds,
                  toast >>
  /\ UNCHANGED chatVars
  /\ Commit

\* Cancel / onOpenChange(false)
CloseDialog ==
  /\ ~closed
  /\ ~rendered.loadingMessages
  /\ rendered.nameDialogOpen
  /\ nameDialogOpen' = FALSE
  /\ UNCHANGED << storedName, profile, displayNameInput, profLoad, upds,
                  toast >>
  /\ UNCHANGED chatVars
  /\ Commit

\* onChange of the display-name field
SetDisplayNameInput(v) ==
  /\ ~closed
  /\ ~rendered.loadingMessages
  /\ rendered.nameDialogOpen
  /\ Keystroke(rendered.displayNameInput, v)
  /\ displayNameInput' = v
  /\ UNCHANGED << storedName, profile, nameDialogOpen, profLoad, upds,
                  toast >>
  /\ UNCHANGED chatVars
  /\ Commit

FreeUpds == {u \in Upds : upds[u].pc = "idle"}
NextUpd == CHOOSE u \in FreeUpds : \A t \in FreeUpds : u <= t

\* (the name is tested without trimming it)
BlankNameUntrimmed(r) == r.displayNameInput = <<>>

\* `if (!displayNameInput.trim()) return;` on the value of the render whose
\* handler is called.
BlankName(r) == Trim(r.displayNameInput) = <<>>

\* updateDisplayName up to the await (the update is issued); the name it
\* writes, before and after the await, is the one of its closure.
updateDisplayName ==
  /\ ~closed
  /\ ~rendered.loadingMessages
  /\ rendered.nameDialogOpen
  /\ IF BlankName(rendered)
       THEN UNCHANGED upds
       ELSE /\ FreeUpds # {}
            /\ upds' = [upds EXCEPT ![NextUpd] =
                 [pc |-> "update",
                  name |-> Trim(rendered.displayNameInput),
                  error |-> FALSE]]
  /\ UNCHANGED << storedName, profile, displayNameInput, nameDialogOpen,
                  profLoad, toast >>
  /\ UNCHANGED chatVars

\* A click on Update.
UpdateClick ==
  /\ updateDisplayName
  /\ Commit

\* (the name is written only where none is stored)
WriteNameIfNone(name) ==
  storedName' = IF storedName = NullV THEN name ELSE storedName

\* .update({ display_name }).eq('id', user?.id) on the user's row
WriteName(name) == storedName' = name

\* The update reaches the store: the row is written, or the call fails.
UpdateStore(u, ok) ==
  /\ upds[u].pc = "update"
  /\ IF ok
       THEN /\ WriteName(upds[u].name)
            /\ upds' = [upds EXCEPT ![u].pc = "returned"]
       ELSE /\ UNCHANGED storedName
            /\ upds' = [upds EXCEPT ![u] =
                 [pc |-> "returned", name |-> <<>>, error |-> TRUE]]
  /\ UNCHANGED << profile, displayNameInput, nameDialogOpen, profLoad,
                  toast, rendered >>
  /\ UNCHANGED chatVars

\* updateDisplayName: the code after the await.
UpdateReturn(u) ==
  /\ upds[u].pc = "returned"
  /\ upds' = [upds EXCEPT ![u] = IdleUpd]
  /\ IF upds[u].error
       THEN /\ toast' = "Failed to update display name"
            /\ UNCHANGED << profile, nameDialogOpen >>
       ELSE /\ profile' = IF profile.loaded
                            THEN [profile EXCEPT
                                    !.display_name = upds[u].name]
                            ELSE profile
            /\ nameDialogOpen' = FALSE
            /\ toast' = "Display name updated!"
  /\ UNCHANGED << storedName, displayNameInput, profLoad, rendered >>
  /\ UNCHANGED chatVars

\* ------------------------------------------------------------------------
\* handleSignOut
\* ------------------------------------------------------------------------
\* signOut() of useAuth succeeds: the session is closed, the component is
\* taken down and its view state is discarded.
signOut ==
  /\ closed' = TRUE
  /\ messages' = <<>>

\* A click on Sign Out: `await signOut()` and the toast of its outcome.
\* Nothing here touches the executions of handleSendMessage in flight.
handleSignOut(ok) ==
  /\ ~closed
  /\ ~rendered.loadingMessages
  /\ IF ok
       THEN /\ signOut
            /\ toast' = "Signed out successfully"
       ELSE /\ toast' = "Failed to sign out"
            /\ UNCHANGED << closed, messages >>
  /\ UNCHANGED << proxyVars, store, store0, inputValue, loading,
                  loadingMessages, rendered, load, subs, profVars >>

\* A request sent to the edge function by any other HTTP client.
ProxyRequest(req, up) ==
  /\ Handle(0, req, up)
  /\ UNCHANGED ctlVars
  /\ UNCHANGED sideVars

\* ------------------------------------------------------------------------
\* Specifications
\* ------------------------------------------------------------------------
\* One session of the ChatBot component with the edge function it invokes.
Next ==
  \/ Render
  \/ \E ok \in BOOLEAN : LoadSelect(ok)
  \/ LoadReturn
  \/ \E v \in Inputs : SetInputValue(v)
  \/ Submit
  \/ \E s \in Subs, ok \in BOOLEAN : InsertUser(s, ok)
  \/ \E s \in Subs : UserReturned(s)
  \/ \E s \in Subs, up \in Upstreams : InvokeProxy(s, up)
  \/ \E s \in Subs : InvokeUnreached(s)
  \/ \E s \in Subs : InvokeReturned(s)
  \/ \E s \in Subs, ok \in BOOLEAN : InsertAssistant(s, ok)
  \/ \E s \in Subs : AssistantReturned(s)

Spec == Init /\ [][Next]_vars

\* The session without submissions: the two loads of the mount effect and
\* the display-name dialog. Nothing here reads the key of the edge function
\* or the content of the history: one of each stands for all.
ProfileInit == Mounted({TRUE}, {<<>>}, InitialNames)

ProfileNext ==
  \/ Render
  \/ \E ok \in BOOLEAN : LoadSelect(ok)
  \/ LoadReturn
  \/ \E ok \in BOOLEAN : ProfileSelect(ok)
  \/ ProfileReturn
  \/ OpenDialog
  \/ CloseDialog
  \/ \E v \in Inputs : SetDisplayNameInput(v)
  \/ UpdateClick
  \/ \E u \in Upds, ok \in BOOLEAN : UpdateStore(u, ok)
  \/ \E u \in Upds : UpdateReturn(u)

ProfileSpec == ProfileInit /\ [][ProfileNext]_vars

\* The session when the user object changes while it is open.
ReloadNext == Next \/ UserChanged

ReloadSpec == Init /\ [][ReloadNext]_vars

\* The session with its sign-out.
SignOutNext == Next \/ \E ok \in BOOLEAN : handleSignOut(ok)

SignOutSpec == Init /\ [][SignOutNext]_vars

\* The steps of one execution of handleSendMessage: the calls it awaits
\* return and the code after each await runs.
SubStep(s) ==
  \/ \E ok \in BOOLEAN : InsertUser(s, ok)
  \/ UserReturned(s)
  \/ \E up \in Upstreams : InvokeProxy(s, up)
  \/ InvokeUnreached(s)
  \/ InvokeReturned(s)
  \/ \E ok \in BOOLEAN : InsertAssistant(s, ok)
  \/ AssistantReturned(s)

\* The session when every awaited call returns, the event loop runs the
\* code that waits for it, and React renders the state it was given.
FairSpec ==
  /\ Spec
  /\ WF_vars(Render)
  /\ WF_vars((\E ok \in BOOLEAN : LoadSelect(ok)) \/ LoadReturn)
  /\ \A s \in Subs : WF_vars(SubStep(s))

\* The session when an event may be handled before the state updates of
\* the previous event are committed.
RaceNext == Next \/ SubmitBeforeCommit

RaceSpec == Init /\ [][RaceNext]_vars

\* The edge function alone, serving the requests of arbitrary clients.
ProxyNext == \E req \in Requests, up \in Upstreams : ProxyRequest(req, up)

ProxySpec == Init /\ [][ProxyNext]_vars

\* ------------------------------------------------------------------------
\* Properties
\* ------------------------------------------------------------------------
InStore(row) == \E i \in DOMAIN store : store[i] = row
InView(row) == \E i \in DOMAIN messages : messages[i] = row

RoleCount(rows, role) == Cardinality({i \in DOMAIN rows : rows[i].role = role})

\* the executions of handleSendMessage that have not returned
InFlight == {s \in Subs : subs[s].pc \notin {"idle", "done"}}

\* the executions that have called supabase.functions.invoke
Invoked ==
  {s \in Subs :
     \/ subs[s].pc \in {"invoke", "invokeReturned", "saveAssistant",
                        "assistantReturned"}
     \/ subs[s].pc = "done" /\ subs[s].failedAt # "userInsert"}

\* C1: the user turn of a submission is in the store and in the view before
\* the edge function is invoked for it, the edge function handles no request
\* of a submission whose user insert failed, and every turn the view shows is
\* already in the store (the assistant turn is persisted before it is shown).
C1_CausalOrder ==
  /\ \A s \in Invoked :
       /\ subs[s].savedUserMessage.role = "user"
       /\ InStore(subs[s].savedUserMessage)
       /\ InView(subs[s].savedUserMessage)
  /\ \A s \in Subs :
       subs[s].failedAt = "userInsert" => subs[s].savedUserMessage = NoRow
  /\ exchange.caller \in Subs => exchange.caller \in Invoked
  /\ \A i \in DOMAIN messages : InStore(messages[i])
  /\ \A s \in Subs :
       subs[s].savedAssistantMessage # NoRow =>
         /\ subs[s].savedAssistantMessage.role = "assistant"
         /\ InStore(subs[s].savedAssistantMessage)

\* a round trip has completed: both turns are in the store and in the view
C1_Witness ==
  \E s \in Subs :
    /\ subs[s].pc = "done" /\ subs[s].failedAt = "none"
    /\ InView(subs[s].savedUserMessage)
    /\ InView(subs[s].savedAssistantMessage)

C3_Step ==
  \A s \in Subs :
    (subs[s].pc = "invokeReturned" /\ subs[s].reply.error
       /\ subs'[s] # subs[s]) =>
      /\ subs'[s].pc = "done"
      /\ subs'[s].savedAssistantMessage = NoRow
      /\ store' = store
      /\ \E i \in DOMAIN messages' : messages'[i] = subs[s].savedUserMessage

C3_State ==
  \A s \in Subs :
    (subs[s].pc = "done" /\ subs[s].failedAt = "invoke") =>
      /\ subs[s].savedAssistantMessage = NoRow
      /\ InStore(subs[s].savedUserMessage)
      /\ InView(subs[s].savedUserMessage)
      /\ RoleCount(store, "assistant") =
           RoleCount(store0, "assistant")
           + Cardinality({t \in Subs : subs[t].savedAssistantMessage # NoRow
                            \/ (subs[t].pc = "assistantReturned"
                                /\ ~subs[t].reply.error)})

\* C3: after a failed invocation of the edge function no assistant turn is
\* persisted for the submission and its user turn remains in the store and
\* in the view, in every state and over every step of the controller.
C3_NoAssistantOnProxyFailure == [](C3_State) /\ [][C3_Step]_vars

C3_Witness ==
  \E s \in Subs :
    /\ subs[s].pc = "done" /\ subs[s].failedAt = "invoke"
    /\ InStore(subs[s].savedUserMessage)

\* The exchange is that of a request with a JSON object as its body, sent
\* with a method other than OPTIONS.
ObjectRequest ==
  /\ exchange.req.method = "POST"
  /\ exchange.req.parses
  /\ exchange.req.isObject

\* C4: a request whose message is missing or the empty string is answered
\* with status 400 and the body {"error": "Message is required"}, and no
\* outbound call is made, with and without the credential.
C4_EmptyMessageRejected ==
  (ObjectRequest /\ exchange.req.message \in {Undefined, <<>>}) =>
    /\ exchange.out.res.status = 400
    /\ exchange.out.res.body = [error |-> "Message is required"]
    /\ ~exchange.out.fetched
    /\ exchange.up = NoUpstream

C4_Witness ==
  /\ ObjectRequest
  /\ exchange.req.message = <<>>
  /\ ~apiKey
  /\ exchange.out.res.status = 400

\* C5 as stated: a non-empty message, the credential configured and a
\* success (2xx) answer of the completion API give status 200 and a body
\* whose `response` member is present and not null.
C5_Original ==
  (ObjectRequest /\ ~Falsy(exchange.req.message) /\ apiKey
     /\ exchange.up.kind = "resp" /\ Ok(exchange.up)) =>
    /\ exchange.out.res.status = 200
    /\ "response" \in DOMAIN exchange.out.res.body
    /\ exchange.out.res.body["response"] # NullV

\* C5 (amended): a non-empty message, the credential configured and a
\* success (2xx) answer of the completion API whose body parses and has a
\* first choice with a message content that is not null give status 200 and
\* a body whose `response` member is present and not null: it is that
\* content.
C5_SuccessResponse ==
  (ObjectRequest /\ ~Falsy(exchange.req.message) /\ apiKey
     /\ exchange.up.kind = "resp" /\ Ok(exchange.up)
     /\ exchange.up.parses /\ exchange.up.choices # <<>>
     /\ exchange.up.choices[1] \notin {NullV, Undefined}) =>
    /\ exchange.out.res.status = 200
    /\ "response" \in DOMAIN exchange.out.res.body
    /\ exchange.out.res.body["response"] # NullV
    /\ exchange.out.res.body["response"] = exchange.up.choices[1]

C5_Witness ==
  /\ ObjectRequest
  /\ exchange.req.message = <<" ", "a">>
  /\ exchange.up.kind = "resp" /\ Ok(exchange.up)
  /\ exchange.out.res.status = 200
  /\ exchange.out.res.body = [response |-> <<"y">>]

\* C6: a request with a non-empty message is answered with status 500 and
\* an `error` body, and no outbound call is made, when the credential is not
\* provisioned.
C6_MissingCredential ==
  (ObjectRequest /\ ~Falsy(exchange.req.message) /\ ~apiKey) =>
    /\ exchange.out.res.status = 500
    /\ DOMAIN exchange.out.res.body = {"error"}
    /\ exchange.out.res.body # [error |-> "Internal server error"]
    /\ ~exchange.out.fetched
    /\ exchange.up = NoUpstream

C6_Witness ==
  /\ ObjectRequest
  /\ exchange.req.message = <<"a">>
  /\ ~apiKey
  /\ exchange.out.res.status = 500

\* C7: a non-success answer of the completion API gives status 500 and a
\* body with `error` and `details`, where `details` carries the status and
\* the body of that answer; the body has no `response`.
C7_UpstreamFailure ==
  (exchange.out.fetched /\ exchange.up.kind = "resp" /\ ~Ok(exchange.up)) =>
    /\ exchange.out.res.status = 500
    /\ DOMAIN exchange.out.res.body = {"error", "details"}
    /\ exchange.out.res.body["details"][2] = exchange.up.status
    /\ exchange.out.res.body["details"][4] = exchange.up.text

C7_Witness ==
  /\ exchange.out.fetched
  /\ exchange.up.kind = "resp"
  /\ exchange.up.status = 401
  /\ exchange.out.res.status = 500

\* a statement of the try block throws: the body does not parse or cannot be
\* destructured, the outbound call throws, or the success answer of the
\* completion API does not parse or has no first choice
Raised ==
  \/ ~exchange.req.parses
  \/ ~exchange.req.isObject
  \/ /\ exchange.out.fetched
     /\ \/ exchange.up.kind = "throw"
        \/ /\ Ok(exchange.up)
           /\ ~exchange.up.parses \/ exchange.up.choices = <<>>

\* C8: every request gets a response, and an exception raised while a
\* request other than OPTIONS is handled becomes status 500 with the body
\* {"error": "Internal server error"}.
C8_HandlerTotal ==
  exchange # NoExchange =>
    /\ exchange.out.res.outcome = "response"
    /\ (exchange.req.method # "OPTIONS" /\ Raised) =>
         /\ exchange.out.res.status = 500
         /\ exchange.out.res.body = [error |-> "Internal server error"]

C8_Witness ==
  /\ exchange.req.method = "POST"
  /\ exchange.out.fetched
  /\ Ok(exchange.up) /\ exchange.up.parses /\ exchange.up.choices = <<>>
  /\ exchange.out.res.status = 500

\* C9: the payload of every outbound call is the system instruction followed
\* by the message of the request, and nothing else: two calls with the same
\* message have the same payload, whatever was handled before and whatever
\* the store holds.
C9_Stateless ==
  /\ \A i \in DOMAIN outLog :
       outLog[i].payload =
         << [role |-> "system", content |-> SystemPrompt],
            [role |-> "user", content |-> outLog[i].message] >>
  /\ \A i, j \in DOMAIN outLog :
       outLog[i].message = outLog[j].message =>
         outLog[i].payload = outLog[j].payload

\* two calls with the same message, the second made after the round trip of
\* the first was stored
C9_Witness ==
  /\ Len(outLog) = 2
  /\ outLog[1].message = outLog[2].message
  /\ \E s \in Subs : subs[s].savedAssistantMessage # NoRow
  /\ \E s \in Subs : subs[s].pc = "invokeReturned"

\* the submissions of the session that have returned with every step done
Succeeded == {s \in Subs : subs[s].pc = "done" /\ subs[s].failedAt = "none"}

\* C10: when N submissions have been made and every step of each succeeded,
\* the store holds 2N more rows than at the start: N of role user and N of
\* role assistant.
C10_TwoPerRoundTrip ==
  (\A s \in Subs : subs[s].pc = "idle" \/ s \in Succeeded) =>
    /\ Len(store) = Len(store0) + 2 * Cardinality(Succeeded)
    /\ RoleCount(store, "user") =
         RoleCount(store0, "user") + Cardinality(Succeeded)
    /\ RoleCount(store, "assistant") =
         RoleCount(store0, "assistant") + Cardinality(Succeeded)

C10_Witness ==
  /\ Cardinality(Succeeded) = 2
  /\ \A s \in Subs : subs[s].pc = "idle" \/ s \in Succeeded
  /\ Len(store) = Len(store0) + 4

\* the assistant turn an execution has inserted, NoRow when it has none
AssistantRowOf(s) ==
  IF subs[s].pc = "assistantReturned" /\ ~subs[s].reply.error
    THEN subs[s].reply.row
    ELSE subs[s].savedAssistantMessage

C12_ReturnsToReady ==
  \A s \in Subs :
    (subs[s].pc \notin {"idle", "done"}) ~>
      (InFlight = {} /\ ~loading /\ ~rendered.loading)

\* a submission has failed and the controller accepts input again
C12_Witness ==
  \E s \in Subs :
    /\ subs[s].pc = "done" /\ subs[s].failedAt # "none"
    /\ InFlight = {} /\ ~loading /\ ~rendered.loading

\* C13: a call of handleSendMessage whose input is empty or consists of
\* whitespace changes nothing: the store, the view, the input field and the
\* loading flag stay as they are, no execution starts and no request goes to
\* the edge function or from it.
C13_EmptySubmitIsNoOp ==
  [][(handleSendMessage /\ Trim(rendered.inputValue) = <<>>) =>
       UNCHANGED << store, messages, inputValue, loading, subs, exchange,
                    outLog >>]_vars

\* the handler can be called on an input that consists of whitespace
C13_Witness ==
  /\ ~closed /\ ~rendered.loadingMessages /\ ~rendered.loading
  /\ rendered.inputValue # <<>>
  /\ Trim(rendered.inputValue) = <<>>

\* C14: when the select of loadMessages fails, the code after it shows the
\* toast "Failed to load chat history", leaves the view empty and sets
\* loadingMessages to false; the load never stays pending once the select
\* has returned, and the render that ends the loading screen can always
\* follow.
C14_Step ==
  (load.pc = "returned" /\ load.error /\ load' # load) =>
    /\ load'.pc = "done"
    /\ toast' = "Failed to load chat history"
    /\ messages' = <<>>
    /\ loadingMessages' = FALSE

C14_State ==
  /\ load.pc = "returned" => ENABLED LoadReturn
  /\ load.pc = "done" => ~loadingMessages
  /\ (~loadingMessages /\ rendered.loadingMessages) => ENABLED Render

C14_LoadFailureReachesReady == [](C14_State) /\ [][C14_Step]_vars

\* the load of an existing history has failed and the chat is shown, empty
C14_Witness ==
  /\ toast = "Failed to load chat history"
  /\ store0 # <<>>
  /\ load.pc = "done"
  /\ messages = <<>>
  /\ ~rendered.loadingMessages

\* C15: once the session is signed out, no step inserts into the store,
\* sends a request to the edge function or from it, or changes the view,
\* the steps left of an execution of handleSendMessage that was in flight at
\* the sign-out included.
C15_ClosedIsQuiet ==
  [][closed =>
       UNCHANGED << store, exchange, outLog, messages >>]_vars

\* C16: every step leaves the stored messages as they are or adds exactly
\* one row at the end, with an id no stored row has: no step removes a row
\* or changes the id, owner, role, content or timestamp of a stored one.
C16_AppendOnly ==
  [][\/ store' = store
     \/ /\ Len(store') = Len(store) + 1
        /\ SubSeq(store', 1, Len(store)) = store
        /\ \A i \in DOMAIN store :
             store[i].id # store'[Len(store')].id]_vars

\* rows that existed when the session started are followed by new ones
C16_Witness ==
  /\ store0 # <<>>
  /\ Len(store) >= Len(store0) + 2
  /\ SubSeq(store, 1, Len(store0)) = store0

\* the position of an execution of handleSendMessage in its program order
Rank(pc) ==
  CASE pc = "idle" -> 0
    [] pc = "saveUser" -> 1
    [] pc = "userReturned" -> 2
    [] pc = "invoke" -> 3
    [] pc = "invokeReturned" -> 4
    [] pc = "saveAssistant" -> 5
    [] pc = "assistantReturned" -> 6
    [] pc = "done" -> 7

\* C17: an execution of handleSendMessage only moves forward in its program
\* order, so it passes each of its three calls at most once; a call that
\* returned an error ends it, and an execution that has ended does nothing
\* more. Every insert is the one step that takes one execution past
\* saveMessage, and every request to the edge function is the one step that
\* takes its caller past invoke.
C17_NoRetry ==
  [][/\ \A s \in Subs :
          subs'[s] # subs[s] =>
            /\ subs[s].pc # "done"
            /\ Rank(subs'[s].pc) > Rank(subs[s].pc)
            /\ (subs[s].pc \in {"userReturned", "invokeReturned",
                                "assistantReturned"}
                  /\ subs[s].reply.error) => subs'[s].pc = "done"
     /\ store' # store =>
          \E s \in Subs :
            /\ \/ subs[s].pc = "saveUser" /\ subs'[s].pc = "userReturned"
               \/ /\ subs[s].pc = "saveAssistant"
                  /\ subs'[s].pc = "assistantReturned"
            /\ \A t \in Subs \ {s} : subs'[t] = subs[t]
     /\ (exchange' # exchange /\ exchange'.caller \in Subs) =>
          /\ subs[exchange'.caller].pc = "invoke"
          /\ subs'[exchange'.caller].pc = "invokeReturned"
     /\ outLog' # outLog =>
          \E s \in Subs :
            subs[s].pc = "invoke" /\ subs'[s].pc = "invokeReturned"]_vars

\* one execution has failed and a later one has run all its steps
C17_Witness ==
  \E s, t \in Subs :
    /\ subs[s].pc = "done" /\ subs[s].failedAt # "none"
    /\ subs[t].pc = "done" /\ subs[t].failedAt = "none"

\* C18: a call of updateDisplayName whose name is empty or consists of
\* whitespace changes nothing: the stored display name, the local profile,
\* the dialog and its field stay as they are and no update is issued.
C18_BlankNameIsNoOp ==
  [][(updateDisplayName /\ Trim(rendered.displayNameInput) = <<>>) =>
       UNCHANGED << storedName, profile, nameDialogOpen, displayNameInput,
                    upds >>]_vars

\* Update can be clicked on a name that consists of whitespace
C18_Witness ==
  /\ ~closed /\ ~rendered.loadingMessages /\ rendered.nameDialogOpen
  /\ rendered.displayNameInput # <<>>
  /\ Trim(rendered.displayNameInput) = <<>>

\* C19: an update of updateDisplayName that the store accepts writes the
\* trimmed, non-empty name of the call over the stored display name,
\* whatever that was (so writing the name that is stored already changes
\* nothing); nothing else writes the stored name, and a select of
\* loadProfile that succeeds returns the stored name.
C19_IdempotentOverwrite ==
  [][/\ \A u \in Upds :
          (upds[u].pc = "update" /\ upds'[u].pc = "returned"
             /\ ~upds'[u].error) =>
            /\ storedName' = upds[u].name
            /\ storedName' # <<>> /\ Trim(storedName') = storedName'
            /\ storedName = upds[u].name => storedName' = storedName
     /\ storedName' # storedName =>
          \E u \in Upds :
            upds[u].pc = "update" /\ upds'[u].pc = "returned"
     /\ (profLoad.pc = "select" /\ profLoad'.pc = "returned"
           /\ ~profLoad'.error) => profLoad'.name = storedName]_vars

\* a name was stored, an update wrote another one over it and then the
\* select of loadProfile returned the new one
C19_Witness ==
  /\ profLoad.pc = "returned" /\ ~profLoad.error
  /\ profLoad.name \notin InitialNames
  /\ profLoad.name = storedName
  /\ \A u \in Upds : upds[u].pc = "idle"

\* The text an accepted submission took from the input field is the content
\* of the user turn it stored and the message of the request it sent to the
\* edge function.
C20_Carried ==
  \A s \in Subs :
    /\ (subs[s].pc = "userReturned" /\ ~subs[s].reply.error) =>
         /\ subs[s].reply.row.role = "user"
         /\ subs[s].reply.row.content = subs[s].userMessage
    /\ subs[s].pc \in {"invoke", "invokeReturned"} =>
         subs[s].savedUserMessage.content = subs[s].userMessage
    /\ exchange.caller = s =>
         /\ subs[s].pc = "invokeReturned"
         /\ exchange.req.message = subs[s].userMessage

\* C20 as stated: the text an accepted submission stores and sends is the
\* text of the input field as the user entered it, leading and trailing
\* whitespace included.
C20_Original ==
  /\ [](C20_Carried)
  /\ [][\A s \in Subs :
          (subs[s].pc = "idle" /\ subs'[s].pc = "saveUser") =>
            subs'[s].userMessage = rendered.inputValue]_vars

\* C20: the text an accepted submission stores as the user turn and sends
\* to the edge function is the text of the input field without its leading
\* and trailing whitespace, and it is not empty.
C20_TrimmedTextSent ==
  /\ [](C20_Carried)
  /\ [][\A s \in Subs :
          (subs[s].pc = "idle" /\ subs'[s].pc = "saveUser") =>
            /\ subs'[s].userMessage = Trim(rendered.inputValue)
            /\ subs'[s].userMessage # <<>>]_vars

\* the edge function has been sent, and has sent on, the text of a
\* submission whose user turn is in the store
C20_Witness ==
  \E s \in Subs :
    /\ exchange.caller = s
    /\ exchange.req.message = subs[s].userMessage
    /\ \E i \in DOMAIN outLog : outLog[i].message = subs[s].userMessage
    /\ InStore(subs[s].savedUserMessage)

\* C21: every response of the edge function carries the two CORS headers
\* of corsHeaders, with their values (any origin is allowed), and a request
\* of method OPTIONS is answered with status 200, those headers alone and an
\* empty body, with no outbound call, whether or not its body parses and
\* whether or not the key is set.
C21_CorsOnEveryResponse ==
  exchange # NoExchange =>
    /\ exchange.out.res.outcome = "response"
    /\ corsHeaders \subseteq exchange.out.res.headers
    /\ <<"Access-Control-Allow-Origin", "*">> \in exchange.out.res.headers
    /\ exchange.req.method = "OPTIONS" =>
         /\ exchange.out.res.status = 200
         /\ exchange.out.res.headers = corsHeaders
         /\ DOMAIN exchange.out.res.body = {}
         /\ ~exchange.out.fetched
         /\ exchange.up = NoUpstream

\* a preflight whose body does not parse was answered while no key is set
C21_Witness ==
  /\ exchange.req.method = "OPTIONS"
  /\ ~exchange.req.parses
  /\ ~apiKey
  /\ exchange.out.res.status = 200

\* the position of a row in the store, 0 when it is not there
StorePos(row) ==
  IF InStore(row) THEN CHOOSE i \in DOMAIN store : store[i] = row ELSE 0

ResponseValue(res) ==
  IF "response" \in DOMAIN res.body THEN res.body["response"] ELSE Undefined

\* What invoke resolved to without an error is the `response` value of the
\* edge function's 200, which is the content of the first choice of the
\* completion API's answer.
C23_Relayed ==
  \A s \in Subs :
    (subs[s].pc = "invokeReturned" /\ ~subs[s].reply.error) =>
      /\ exchange.caller = s
      /\ exchange.out.res.status = 200
      /\ exchange.up.choices # <<>>
      /\ ResponseValue(exchange.out.res) = exchange.up.choices[1]
      /\ subs[s].reply.response = ResponseValue(exchange.out.res)

\* the code after invoke passes on what invoke resolved to
C23_PassedOn ==
  \A s \in Subs :
    (subs[s].pc = "invokeReturned" /\ subs'[s].pc = "saveAssistant") =>
      subs'[s].assistantResponse = subs[s].reply.response

C24_ViewOnlyGrows ==
  [][(~closed /\ ~closed') =>
       /\ \A i \in DOMAIN messages :
            \E p \in DOMAIN messages' : messages'[p] = messages[i]
       /\ \A i, j \in DOMAIN messages :
            (i < j /\ messages[i] # messages[j]) =>
              \E p, q \in DOMAIN messages' :
                /\ p < q
                /\ messages'[p] = messages[i]
                /\ messages'[q] = messages[j]]_vars

\* C25: when an execution of updateDisplayName whose update the store
\* accepted returns, the profile held locally has the stored display name,
\* which is the trimmed name of the call, whatever loadProfile has done by
\* then; an update the store refuses leaves the stored name as it is, and
\* the return of its execution leaves the local profile as it is.
C25_LocalEqualsStored ==
  [][\A u \in Upds :
       /\ (upds[u].pc = "returned" /\ ~upds[u].error
            /\ upds'[u].pc = "idle") =>
            /\ profile'.loaded
            /\ profile'.display_name = upds[u].name
            /\ profile'.display_name = storedName'
       /\ (upds[u].pc = "update" /\ upds'[u].pc = "returned"
            /\ upds'[u].error) => storedName' = storedName
       /\ (upds[u].pc = "returned" /\ upds[u].error
            /\ upds'[u].pc = "idle") =>
            profile' = profile /\ storedName' = storedName]_vars

====
